---- MODULE Spec2Model ----
(***************************************************************************)
(* Model of packages/core/src/tools/mcp-tool.ts: the DiscoveredMCPTool     *)
(* adapter (confirmation gate with its static allow-list, execute) and the *)
(* response transformer / display summarizer it applies to the raw         *)
(* response of the outbound call.                                          *)
(***************************************************************************)
EXTENDS Integers, Sequences, FiniteSets, Bags, TLC

(***************************************************************************)
(* Bounds of the model.                                                    *)
(***************************************************************************)
\* number of confirmation objects shouldConfirmExecute hands out
MaxConfirmations == 2

(***************************************************************************)
(* Inputs: constructor arguments of the tool instances and the outcomes    *)
(* the caller can pass to onConfirm.  The names include '.' so that a      *)
(* server name can coincide with a "<server>.<tool>" key.                  *)
(***************************************************************************)
ServerNames == {"a", "a.b"}
ServerToolNames == {"b", "c"}
TrustValues == {TRUE, FALSE}

\* ToolConfirmationOutcome values the callback is invoked with
Outcomes == {"proceed_once", "proceed_always_server", "proceed_always_tool", "cancel"}

ProceedOnce == "proceed_once"
ProceedAlwaysServer == "proceed_always_server"
ProceedAlwaysTool == "proceed_always_tool"
Cancel == "cancel"

\* DiscoveredMCPTool instances: the fields the constructor stores
Tools == [serverName : ServerNames, serverToolName : ServerToolNames, trust : TrustValues]

VARIABLES
  allowlist,      \* DiscoveredMCPTool.allowlist, the static Set<string>
  confirmations,  \* the bag of confirmation objects handed out so far
  decision,       \* what the last shouldConfirmExecute call returned, and for which tool
  invocation      \* the last execute() call: its outbound call and how it ended

vars == <<allowlist, confirmations, decision, invocation>>

(***************************************************************************)
(* JavaScript values.  A value is a record tagged with its typeof-kind:    *)
(* an object carries the map f from its own keys to values, an array the   *)
(* sequence a of its elements.                                             *)
(***************************************************************************)
Undefined == [k |-> "undefined"]
Null == [k |-> "null"]
Str(s) == [k |-> "string", s |-> s]
Num(n) == [k |-> "number", n |-> n]
Bool(b) == [k |-> "boolean", b |-> b]
Obj(fields) == [k |-> "object", f |-> fields]
Arr(elems) == [k |-> "array", a |-> elems]

\* typeof v === 'object' (true of null and of arrays as well)
TypeofObject(v) == v.k \in {"object", "array", "null"}
TypeofString(v) == v.k = "string"
IsArray(v) == v.k = "array"

\* ToBoolean
Truthy(v) ==
  CASE v.k = "undefined" -> FALSE
    [] v.k = "null" -> FALSE
    [] v.k = "string" -> v.s # ""
    [] v.k = "number" -> v.n # 0
    [] v.k = "boolean" -> v.b
    [] OTHER -> TRUE

\* 'name' in v, for v an object or an array
Has(v, name) == v.k = "object" /\ name \in DOMAIN v.f

\* v.name (v not null/undefined) and v?.name
Get(v, name) == IF Has(v, name) THEN v.f[name] ELSE Undefined

\* a || b
OrElse(a, b) == IF Truthy(a) THEN a ELSE b

\* decimal digits of the small naturals of the model
Digits(n) ==
  CASE n = 0 -> "0" [] n = 1 -> "1" [] n = 2 -> "2" [] n = 3 -> "3" [] n = 4 -> "4"
    [] n = 5 -> "5" [] n = 6 -> "6" [] n = 7 -> "7" [] n = 8 -> "8" [] n = 9 -> "9"

\* ToString, as applied by a template literal `${v}`
RECURSIVE ToStr(_)
RECURSIVE JoinToStr(_, _)
JoinToStr(elems, sep) ==
  IF elems = << >> THEN ""
  ELSE LET h == IF Head(elems).k \in {"undefined", "null"} THEN "" ELSE ToStr(Head(elems))
       IN IF Len(elems) = 1 THEN h ELSE h \o sep \o JoinToStr(Tail(elems), sep)
ToStr(v) ==
  CASE v.k = "undefined" -> "undefined"
    [] v.k = "null" -> "null"
    [] v.k = "string" -> v.s
    [] v.k = "number" -> Digits(v.n)
    [] v.k = "boolean" -> IF v.b THEN "true" ELSE "false"
    [] v.k = "array" -> JoinToStr(v.a, ",")
    [] OTHER -> "[object Object]"

\* GenAI Part constructors
TextPart(s) == Obj([text |-> Str(s)])
InlineDataPart(data, mimeType) ==
  Obj([inlineData |-> Obj([data |-> data, mimeType |-> mimeType])])

(***************************************************************************)
(* transformMcpResponse and its type guards                                *)
(***************************************************************************)
MCP_MEDIA_TYPES == {"image", "pdf", "audio", "video"}

\* a guard that takes a text block for one only when its text is not empty
isTextContentNonEmpty(item) ==
  /\ TypeofObject(item)
  /\ item.k # "null"
  /\ Has(item, "type")
  /\ Has(item, "text")
  /\ Get(item, "type") = Str("text")
  /\ TypeofString(Get(item, "text"))
  /\ Get(item, "text").s # ""

\* a guard that takes every object with a string text for a text block
isTextContentUntyped(item) ==
  /\ TypeofObject(item)
  /\ item.k # "null"
  /\ Has(item, "text")
  /\ TypeofString(Get(item, "text"))

isTextContent(item) ==
  /\ TypeofObject(item)
  /\ item.k # "null"
  /\ Has(item, "type")
  /\ Has(item, "text")
  /\ Get(item, "type") = Str("text")
  /\ TypeofString(Get(item, "text"))

isMediaContent(item) ==
  IF ~TypeofObject(item) \/ item.k = "null" THEN FALSE
  ELSE IF ~Has(item, "type") \/ ~Has(item, "data") \/ ~Has(item, "mimeType") THEN FALSE
  ELSE IF ~TypeofString(Get(item, "type")) \/ Get(item, "type").s \notin MCP_MEDIA_TYPES THEN FALSE
  ELSE /\ Get(item, "data").k \notin {"null", "undefined"}
       /\ Get(item, "mimeType").k \notin {"null", "undefined"}

\* the conjuncts of isResourceContent up to the read of resource.uri
ResourceGuardPrefix(item) ==
  /\ TypeofObject(item)
  /\ item.k # "null"
  /\ Has(item, "type")
  /\ Has(item, "resource")
  /\ Get(item, "type") = Str("resource")
  /\ TypeofObject(Get(item, "resource"))

\* isResourceContent reads `.uri` of a resource that is null: a TypeError
isResourceContentThrows(item) ==
  ResourceGuardPrefix(item) /\ Get(item, "resource").k = "null"

isResourceContent(item) ==
  /\ ResourceGuardPrefix(item)
  /\ TypeofString(Get(Get(item, "resource"), "uri"))

TypeErrorValue == [k |-> "error", name |-> "TypeError"]

\* one iteration of the loop over the content items: the parts pushed to
\* currentPartItems, whether currentPartHasMedia / hasTransformedContent
\* were set, and whether the iteration threw
ItemOut(parts, media, transformed) ==
  [parts |-> parts, media |-> media, transformed |-> transformed, threw |-> FALSE]

InvalidMediaText == "[Invalid media: missing data or mimeType]"

\* a loop body that uses the media fields without validating them
TransformItemUnvalidatedMedia(item) ==
  IF isTextContent(item) THEN
    ItemOut(<<Obj([text |-> Get(item, "text")])>>, FALSE, TRUE)
  ELSE IF isMediaContent(item) THEN
    ItemOut(<<InlineDataPart(Get(item, "data"), Get(item, "mimeType"))>>, TRUE, TRUE)
  ELSE IF isResourceContentThrows(item) THEN
    [parts |-> << >>, media |-> FALSE, transformed |-> FALSE, threw |-> TRUE]
  ELSE IF isResourceContent(item) THEN
    LET resource == Get(item, "resource") IN
    IF Truthy(Get(resource, "blob")) /\ Truthy(Get(resource, "mimeType")) THEN
      ItemOut(<<InlineDataPart(Get(resource, "blob"), Get(resource, "mimeType"))>>, TRUE, TRUE)
    ELSE IF Truthy(Get(resource, "text")) THEN
      ItemOut(<<TextPart("[Resource: " \o ToStr(Get(resource, "uri")) \o "]\n"
                         \o ToStr(Get(resource, "text")))>>, FALSE, TRUE)
    ELSE
      ItemOut(<<TextPart("[Resource: " \o ToStr(Get(resource, "uri")) \o "]")>>, FALSE, TRUE)
  ELSE IF Truthy(item) /\ TypeofObject(item) /\ Has(item, "type") THEN
    LET itemType == Get(item, "type") IN
    IF TypeofString(itemType) /\ itemType.s \in MCP_MEDIA_TYPES
    THEN ItemOut(<<TextPart(InvalidMediaText)>>, FALSE, TRUE)
    ELSE ItemOut(<<TextPart("[Unknown content type: " \o ToStr(itemType) \o "]")>>, FALSE, TRUE)
  ELSE ItemOut(<< >>, FALSE, FALSE)

TransformItem(item) ==
  IF isTextContent(item) THEN
    ItemOut(<<Obj([text |-> Get(item, "text")])>>, FALSE, TRUE)
  ELSE IF isMediaContent(item) THEN
    IF \/ ~Truthy(Get(item, "data")) \/ ~Truthy(Get(item, "mimeType"))
       \/ ~TypeofString(Get(item, "data")) \/ ~TypeofString(Get(item, "mimeType"))
    THEN ItemOut(<<TextPart(InvalidMediaText)>>, FALSE, TRUE)
    ELSE ItemOut(<<InlineDataPart(Get(item, "data"), Get(item, "mimeType"))>>, TRUE, TRUE)
  ELSE IF isResourceContentThrows(item) THEN
    [parts |-> << >>, media |-> FALSE, transformed |-> FALSE, threw |-> TRUE]
  ELSE IF isResourceContent(item) THEN
    LET resource == Get(item, "resource") IN
    IF Truthy(Get(resource, "blob")) /\ Truthy(Get(resource, "mimeType")) THEN
      ItemOut(<<InlineDataPart(Get(resource, "blob"), Get(resource, "mimeType"))>>, TRUE, TRUE)
    ELSE IF Truthy(Get(resource, "text")) THEN
      ItemOut(<<TextPart("[Resource: " \o ToStr(Get(resource, "uri")) \o "]\n"
                         \o ToStr(Get(resource, "text")))>>, FALSE, TRUE)
    ELSE
      ItemOut(<<TextPart("[Resource: " \o ToStr(Get(resource, "uri")) \o "]")>>, FALSE, TRUE)
  ELSE IF Truthy(item) /\ TypeofObject(item) /\ Has(item, "type") THEN
    LET itemType == Get(item, "type") IN
    IF TypeofString(itemType) /\ itemType.s \in MCP_MEDIA_TYPES
    THEN ItemOut(<<TextPart(InvalidMediaText)>>, FALSE, TRUE)
    ELSE ItemOut(<<TextPart("[Unknown content type: " \o ToStr(itemType) \o "]")>>, FALSE, TRUE)
  ELSE ItemOut(<< >>, FALSE, FALSE)

\* a sequencing that puts the parts of the later iterations first
ThenOutReversed(h, r) ==
  IF h.threw THEN h
  ELSE [parts |-> r.parts \o h.parts,
        media |-> h.media \/ r.media,
        transformed |-> h.transformed \/ r.transformed,
        threw |-> r.threw]

\* the effect of one iteration (h) followed by the rest of the loop (r): a
\* throw ends the loop
ThenOut(h, r) ==
  IF h.threw THEN h
  ELSE [parts |-> h.parts \o r.parts,
        media |-> h.media \/ r.media,
        transformed |-> h.transformed \/ r.transformed,
        threw |-> r.threw]

\* the inner loop `for (const item of content)`, folded left to right
RECURSIVE TransformItems(_)
TransformItems(content) ==
  IF content = << >> THEN ItemOut(<< >>, FALSE, FALSE)
  ELSE ThenOut(TransformItem(Head(content)), TransformItems(Tail(content)))

\* content.find(item => this.isTextContent(item))
RECURSIVE FindTextContent(_)
FindTextContent(content) ==
  IF content = << >> THEN Undefined
  ELSE IF isTextContent(Head(content)) THEN Head(content)
  ELSE FindTextContent(Tail(content))

ResponseHeader(t) ==
  "[Response from " \o t.serverToolName \o " (" \o t.serverName \o " MCP Server)]"

\* an end of the pass that puts the header before the items of every part
PushItemsAlwaysHeader(t, items) ==
  IF items.threw THEN items
  ELSE IF Len(items.parts) > 0
    THEN [items EXCEPT !.parts = <<TextPart(ResponseHeader(t))>> \o @]
    ELSE items

\* the end of one pass of the outer loop: the header is put before the
\* items of a part that has media, and the items are pushed to `result`
PushItems(t, items) ==
  IF items.threw THEN items
  ELSE IF items.media /\ Len(items.parts) > 0
    THEN [items EXCEPT !.parts = <<TextPart(ResponseHeader(t))>> \o @]
    ELSE items

\* a pass that does not look at the error flag
TransformContentIgnoresError(t, isError, content) ==
  PushItems(t, TransformItems(content.a))

\* one pass of the outer loop for a part whose functionResponse has the
\* array `content`
TransformContent(t, isError, content) ==
  IF Truthy(isError) THEN
    ItemOut(<<TextPart("Error from " \o t.serverToolName \o ": "
                       \o ToStr(OrElse(Get(FindTextContent(content.a), "text"),
                                       Str("Unknown error"))))>>,
            FALSE, TRUE)
  ELSE PushItems(t, TransformItems(content.a))

\* one pass of the outer loop for a part with a functionResponse
TransformFunctionResponse(t, part, response) ==
  IF ~Truthy(Get(response, "content")) \/ ~IsArray(Get(response, "content"))
    THEN ItemOut(<<part>>, FALSE, FALSE)
    ELSE TransformContent(t, Get(response, "isError"), Get(response, "content"))

\* what one top-level part appends to `result`
TransformPart(t, part) ==
  IF ~Truthy(Get(part, "functionResponse")) THEN ItemOut(<<part>>, FALSE, FALSE)
  ELSE TransformFunctionResponse(t, part, Get(Get(part, "functionResponse"), "response"))

\* the outer loop `for (const part of responseParts)`
RECURSIVE TransformParts(_, _)
TransformParts(t, parts) ==
  IF parts = << >> THEN ItemOut(<< >>, FALSE, FALSE)
  ELSE ThenOut(TransformPart(t, Head(parts)), TransformParts(t, Tail(parts)))

\* a return statement without the fallback to the original parts
TransformReturnNoFallback(responseParts, r) ==
  IF r.threw THEN [threw |-> TRUE, value |-> TypeErrorValue]
  ELSE [threw |-> FALSE, value |-> Arr(r.parts)]

\* the return statement: the new parts when some content was transformed,
\* the original parts otherwise; [threw, value]
TransformReturn(responseParts, r) ==
  IF r.threw THEN [threw |-> TRUE, value |-> TypeErrorValue]
  ELSE [threw |-> FALSE,
        value |-> IF r.transformed THEN Arr(r.parts) ELSE responseParts]

\* transformMcpResponse: [threw, value]; value is the returned Part[] when
\* it did not throw
transformMcpResponse(t, responseParts) ==
  TransformReturn(responseParts, TransformParts(t, responseParts.a))

(***************************************************************************)
(* JSON.stringify(value, null, 2).  Object keys are written in insertion   *)
(* order; the objects of the model insert their keys in the order of       *)
(* KeyOrder.                                                               *)
(***************************************************************************)
KeyOrder ==
  <<"functionResponse", "name", "response", "content", "isError", "type", "text",
    "data", "mimeType", "resource", "uri", "blob", "title", "inlineData">>

RECURSIVE Spaces(_)
Spaces(n) == IF n = 0 THEN "" ELSE " " \o Spaces(n - 1)

\* the keys of object v that JSON.stringify writes, in order
RECURSIVE WrittenKeys(_, _)
WrittenKeys(v, keys) ==
  IF keys = << >> THEN << >>
  ELSE IF Has(v, Head(keys)) /\ Get(v, Head(keys)).k # "undefined"
    THEN <<Head(keys)>> \o WrittenKeys(v, Tail(keys))
    ELSE WrittenKeys(v, Tail(keys))

\* QuoteJSONString: the one string of the model with characters that JSON
\* escapes is the legacy text that holds a JSON-encoded block
JsonQuote(s) ==
  IF s = "{\"type\":\"text\",\"text\":\"hi\"}"
    THEN "\"{\\\"type\\\":\\\"text\\\",\\\"text\\\":\\\"hi\\\"}\""
    ELSE "\"" \o s \o "\""

RECURSIVE JsonStringify(_, _)
RECURSIVE JsonElements(_, _)
RECURSIVE JsonMembers(_, _, _)
JsonElements(elems, indent) ==
  IF elems = << >> THEN ""
  ELSE Spaces(indent) \o JsonStringify(Head(elems), indent)
       \o (IF Len(elems) = 1 THEN "\n" ELSE ",\n" \o JsonElements(Tail(elems), indent))
JsonMembers(v, keys, indent) ==
  IF keys = << >> THEN ""
  ELSE Spaces(indent) \o "\"" \o Head(keys) \o "\": " \o JsonStringify(Get(v, Head(keys)), indent)
       \o (IF Len(keys) = 1 THEN "\n" ELSE ",\n" \o JsonMembers(v, Tail(keys), indent))
JsonStringify(v, indent) ==
  CASE v.k = "undefined" -> "null"
    [] v.k = "null" -> "null"
    [] v.k = "string" -> JsonQuote(v.s)
    [] v.k = "number" -> Digits(v.n)
    [] v.k = "boolean" -> IF v.b THEN "true" ELSE "false"
    [] v.k = "array" ->
         IF v.a = << >> THEN "[]"
         ELSE "[\n" \o JsonElements(v.a, indent + 2) \o Spaces(indent) \o "]"
    [] OTHER ->
         LET keys == WrittenKeys(v, KeyOrder) IN
         IF keys = << >> THEN "{}"
         ELSE "{\n" \o JsonMembers(v, keys, indent + 2) \o Spaces(indent) \o "}"

(***************************************************************************)
(* getStringifiedResultForDisplay                                          *)
(***************************************************************************)
\* a callback without the branch of the video blocks
ProcessContentItemNoVideo(item) ==
  IF ~Truthy(item) \/ ~TypeofObject(item) THEN item
  ELSE
    LET type == Get(item, "type")
        hasMedia == Truthy(Get(item, "data")) /\ Truthy(Get(item, "mimeType"))
    IN
    IF type = Str("text") /\ Truthy(Get(item, "text")) THEN Get(item, "text")
    ELSE IF type = Str("image") /\ hasMedia THEN
      Str("[Image: " \o ToStr(Get(item, "mimeType")) \o "]")
    ELSE IF type = Str("audio") /\ hasMedia THEN
      Str("[Audio: " \o ToStr(Get(item, "mimeType")) \o "]")
    ELSE IF type = Str("pdf") /\ hasMedia THEN Str("[PDF document]")
    ELSE IF Get(item, "text").k # "undefined" THEN Get(item, "text")
    ELSE item

\* the callback of responseContent.map
ProcessContentItem(item) ==
  IF ~Truthy(item) \/ ~TypeofObject(item) THEN item
  ELSE
    LET type == Get(item, "type")
        hasMedia == Truthy(Get(item, "data")) /\ Truthy(Get(item, "mimeType"))
    IN
    IF type = Str("text") /\ Truthy(Get(item, "text")) THEN Get(item, "text")
    ELSE IF type = Str("image") /\ hasMedia THEN
      Str("[Image: " \o ToStr(Get(item, "mimeType")) \o "]")
    ELSE IF type = Str("audio") /\ hasMedia THEN
      Str("[Audio: " \o ToStr(Get(item, "mimeType")) \o "]")
    ELSE IF type = Str("video") /\ hasMedia THEN
      Str("[Video: " \o ToStr(Get(item, "mimeType")) \o "]")
    ELSE IF type = Str("pdf") /\ hasMedia THEN Str("[PDF document]")
    ELSE IF Get(item, "text").k # "undefined" THEN Get(item, "text")
    ELSE item

\* Array.prototype.join('\n') of an array of strings
RECURSIVE JoinLines(_)
JoinLines(strs) ==
  IF strs = << >> THEN ""
  ELSE IF Len(strs) = 1 THEN Head(strs).s
  ELSE Head(strs).s \o "\n" \o JoinLines(Tail(strs))

\* a processing that joins the processed content only when it is not empty
processFunctionResponseJoinsNonEmpty(part) ==
  IF Truthy(Get(part, "functionResponse")) THEN
    LET responseContent == Get(Get(Get(part, "functionResponse"), "response"), "content") IN
    IF Truthy(responseContent) /\ IsArray(responseContent) THEN
      LET processedContent ==
            [i \in 1..Len(responseContent.a) |-> ProcessContentItem(responseContent.a[i])]
      IN
      IF /\ Len(processedContent) > 0
         /\ \A i \in 1..Len(processedContent) : TypeofString(processedContent[i])
        THEN Str(JoinLines(processedContent))
        ELSE Arr(processedContent)
    ELSE Get(part, "functionResponse")
  ELSE part

\* a processing that keeps the whole part when it has no content array
processFunctionResponseKeepsPart(part) ==
  IF Truthy(Get(part, "functionResponse")) THEN
    LET responseContent == Get(Get(Get(part, "functionResponse"), "response"), "content") IN
    IF Truthy(responseContent) /\ IsArray(responseContent) THEN
      LET processedContent ==
            [i \in 1..Len(responseContent.a) |-> ProcessContentItem(responseContent.a[i])]
      IN
      IF \A i \in 1..Len(processedContent) : TypeofString(processedContent[i])
        THEN Str(JoinLines(processedContent))
        ELSE Arr(processedContent)
    ELSE part
  ELSE part

processFunctionResponse(part) ==
  IF Truthy(Get(part, "functionResponse")) THEN
    LET responseContent == Get(Get(Get(part, "functionResponse"), "response"), "content") IN
    IF Truthy(responseContent) /\ IsArray(responseContent) THEN
      LET processedContent ==
            [i \in 1..Len(responseContent.a) |-> ProcessContentItem(responseContent.a[i])]
      IN
      IF \A i \in 1..Len(processedContent) : TypeofString(processedContent[i])
        THEN Str(JoinLines(processedContent))
        ELSE Arr(processedContent)
    ELSE Get(part, "functionResponse")
  ELSE part

\* the three backquotes of a markdown fence; a TLA+ string cannot hold a
\* backquote, so the model writes each as a single quote
Fence == "'''"

getStringifiedResultForDisplay(result) ==
  IF ~Truthy(result) \/ Len(result.a) = 0 THEN Fence \o "json\n[]\n" \o Fence
  ELSE
    LET processedResults ==
          IF Len(result.a) = 1
            THEN processFunctionResponse(result.a[1])
            ELSE Arr([i \in 1..Len(result.a) |-> processFunctionResponse(result.a[i])])
    IN
    IF TypeofString(processedResults)
      THEN processedResults.s
      ELSE Fence \o "json\n" \o JsonStringify(processedResults, 0) \o "\n" \o Fence

(***************************************************************************)
(* shouldConfirmExecute                                                    *)
(***************************************************************************)
serverAllowListKey(t) == t.serverName
\* a tool key built without the server name
toolAllowListKeyToolOnly(t) == t.serverToolName
toolAllowListKey(t) == t.serverName \o "." \o t.serverToolName

\* Set.prototype.has / Set.prototype.add on the static set
SetHas(s, k) == k \in s
\* an add that takes a key already present out again
SetAddToggles(s, k) == IF k \in s THEN s \ {k} ELSE s \cup {k}
SetAdd(s, k) == s \cup {k}

\* the early returns without the trust check
ReturnsFalseIgnoresTrust(t, al) ==
  SetHas(al, serverAllowListKey(t)) \/ SetHas(al, toolAllowListKey(t))

\* the early returns without the look-up of the server key
ReturnsFalseToolKeyOnly(t, al) ==
  IF t.trust THEN TRUE ELSE SetHas(al, toolAllowListKey(t))

\* the early returns with `&&` in place of `||`
ReturnsFalseBothKeys(t, al) ==
  IF t.trust
    THEN TRUE
    ELSE SetHas(al, serverAllowListKey(t)) /\ SetHas(al, toolAllowListKey(t))

\* the two early returns of shouldConfirmExecute: TRUE when it returns false
\* (no confirmation needed)
ReturnsFalse(t, al) ==
  IF t.trust
    THEN TRUE
    ELSE SetHas(al, serverAllowListKey(t)) \/ SetHas(al, toolAllowListKey(t))

\* a details object that shows the server name as the tool name
ConfirmationDetailsServerAsTool(t) ==
  [ type |-> "mcp",
    title |-> "Confirm MCP Tool Execution",
    serverName |-> t.serverName,
    toolName |-> t.serverName,
    serverAllowListKey |-> serverAllowListKey(t),
    toolAllowListKey |-> toolAllowListKey(t),
    outcome |-> "pending" ]

\* the ToolMcpConfirmationDetails object built for tool t; the onConfirm
\* closure captures the two keys.  outcome is what onConfirm was called
\* with, "pending" until the caller calls it.
ConfirmationDetails(t) ==
  [ type |-> "mcp",
    title |-> "Confirm MCP Tool Execution",
    serverName |-> t.serverName,
    toolName |-> t.serverToolName,
    serverAllowListKey |-> serverAllowListKey(t),
    toolAllowListKey |-> toolAllowListKey(t),
    outcome |-> "pending" ]

\* an onConfirm whose Cancel revokes the keys of the confirmation
OnConfirmBodyCancelRevokes(c, outcome, al) ==
  IF outcome = ProceedAlwaysServer
    THEN SetAdd(al, c.serverAllowListKey)
    ELSE IF outcome = ProceedAlwaysTool
      THEN SetAdd(al, c.toolAllowListKey)
      ELSE IF outcome = Cancel
        THEN al \ {c.serverAllowListKey, c.toolAllowListKey}
        ELSE al

\* an onConfirm whose ProceedOnce lists the tool
OnConfirmBodyOnceListsTool(c, outcome, al) ==
  IF outcome = ProceedAlwaysServer
    THEN SetAdd(al, c.serverAllowListKey)
    ELSE IF outcome \in {ProceedAlwaysTool, ProceedOnce}
      THEN SetAdd(al, c.toolAllowListKey)
      ELSE al

\* the allow-list after the body of onConfirm ran with `outcome`
OnConfirmBody(c, outcome, al) ==
  IF outcome = ProceedAlwaysServer
    THEN SetAdd(al, c.serverAllowListKey)
    ELSE IF outcome = ProceedAlwaysTool
      THEN SetAdd(al, c.toolAllowListKey)
      ELSE al

NoTool == [serverName |-> "", serverToolName |-> "", trust |-> FALSE]

\* decision.returned is what the call returned: false or the details object
NoDecision == [tool |-> NoTool, returned |-> Undefined]

ShouldConfirmExecute(t) ==
  IF ReturnsFalse(t, allowlist)
    THEN /\ decision' = [tool |-> t, returned |-> Bool(FALSE)]
         /\ UNCHANGED <<allowlist, confirmations, invocation>>
    ELSE /\ BagCardinality(confirmations) < MaxConfirmations
         /\ confirmations' = confirmations (+) SetToBag({ConfirmationDetails(t)})
         /\ decision' = [tool |-> t, returned |-> ConfirmationDetails(t)]
         /\ UNCHANGED <<allowlist, invocation>>

\* a resolution that settles every pending copy of the confirmation
OnConfirmSettlesSiblings(c, outcome) ==
  /\ BagIn(c, confirmations)
  /\ c.outcome = "pending"
  /\ allowlist' = OnConfirmBody(c, outcome, allowlist)
  /\ confirmations' =
       LET resolved == [c EXCEPT !.outcome = outcome]
           others == [d \in BagToSet(confirmations) \ {c} |-> confirmations[d]]
       IN others (+) [d \in {resolved} |-> CopiesIn(c, confirmations)]
  /\ UNCHANGED <<decision, invocation>>

\* the caller answers a pending confirmation c: it calls its onConfirm with
\* `outcome`
OnConfirm(c, outcome) ==
  /\ BagIn(c, confirmations)
  /\ c.outcome = "pending"
  /\ allowlist' = OnConfirmBody(c, outcome, allowlist)
  /\ confirmations' =
       (confirmations (-) SetToBag({c})) (+) SetToBag({[c EXCEPT !.outcome = outcome]})
  /\ UNCHANGED <<decision, invocation>>

(***************************************************************************)
(* execute.  The outbound mcpTool.callTool is awaited: the call is issued  *)
(* in one step and execute resumes when the promise settles.               *)
(***************************************************************************)
\* caller-supplied params
ParamValues == {Obj([param |-> Str("testValue")])}

FunctionResponsePart(name, content) ==
  Obj([functionResponse |->
        Obj([name |-> Str(name), response |-> Obj([content |-> Arr(content)])])])

\* raw responses the outbound call resolves with
SampleResponses ==
  { Arr(<<FunctionResponsePart("b",
            <<Obj([type |-> Str("text"), text |-> Str("ok")]),
              Obj([type |-> Str("image"), data |-> Str("AAA"),
                   mimeType |-> Str("image/png")])>>)>>),
    Arr(<<FunctionResponsePart("b",
            <<Obj([type |-> Str("resource"), resource |-> Null])>>)>>) }

\* errors the outbound call rejects with
CallErrors ==
  { [k |-> "error", name |-> "Error", message |-> "MCP call failed"],
    [k |-> "error", name |-> "Error", message |-> "Request timed out"] }

None == [k |-> "none"]

\* the callTool promise before it settles
Unsettled == [state |-> "pending"]

\* invocation: pc is where execute stands; calls are the argument lists
\* mcpTool.callTool was called with; settled is how the promise of the
\* outbound call settled; ran lists the functions execute called after the
\* await; result / thrown is what execute returned / threw
Idle ==
  [pc |-> "idle", tool |-> NoTool, calls |-> << >>, settled |-> Unsettled,
   ran |-> << >>, result |-> None, thrown |-> None]

\* execute up to the await: builds functionCalls and issues callTool
ExecuteStart(t, params) ==
  [pc |-> "awaiting", tool |-> t,
   calls |-> <<Arr(<<Obj([name |-> Str(t.serverToolName), args |-> params])>>)>>,
   settled |-> Unsettled, ran |-> << >>, result |-> None, thrown |-> None]

\* execute from the return of transformMcpResponse on
ExecuteFinish(inv, response, transformedParts) ==
  IF transformedParts.threw THEN
    [inv EXCEPT !.pc = "threw", !.thrown = transformedParts.value,
                !.ran = <<"transformMcpResponse">>]
  ELSE
    [inv EXCEPT !.pc = "returned",
                !.ran = <<"transformMcpResponse", "getStringifiedResultForDisplay">>,
                !.result = [k |-> "ToolResult",
                            llmContent |-> transformedParts.value,
                            returnDisplay |-> getStringifiedResultForDisplay(response)]]

\* an execute that answers a rejection by issuing the call again
ExecuteResumeRetries(inv, settled) ==
  IF settled.state = "rejected" THEN
    [inv EXCEPT !.calls = Append(@, inv.calls[1])]
  ELSE
    ExecuteFinish(inv, settled.value, transformMcpResponse(inv.tool, settled.value))

\* execute after the await: `settled` is how the callTool promise settled
ExecuteResume(inv, settled) ==
  IF settled.state = "rejected" THEN
    [inv EXCEPT !.pc = "threw", !.thrown = settled.reason]
  ELSE
    ExecuteFinish(inv, settled.value, transformMcpResponse(inv.tool, settled.value))

\* an execute that issues the call only for a tool the gate lets through
ExecuteGated(t, params) ==
  /\ ReturnsFalse(t, allowlist)
  /\ invocation' = ExecuteStart(t, params)
  /\ UNCHANGED <<allowlist, confirmations, decision>>

\* the caller calls execute on tool t; the model follows the latest call
Execute(t, params) ==
  /\ invocation' = ExecuteStart(t, params)
  /\ UNCHANGED <<allowlist, confirmations, decision>>

\* how the promise of the outbound call settles
Fulfilled(response) == [state |-> "fulfilled", value |-> response]
Rejected(error) == [state |-> "rejected", reason |-> error]

\* the promise of the outbound call fulfils and execute runs to its end
CallToolResolves(response) ==
  /\ invocation.pc = "awaiting"
  /\ invocation' = [ExecuteResume(invocation, Fulfilled(response))
                      EXCEPT !.settled = Fulfilled(response)]
  /\ UNCHANGED <<allowlist, confirmations, decision>>

\* the promise of the outbound call rejects and execute runs to its end
CallToolRejects(error) ==
  /\ invocation.pc = "awaiting"
  /\ invocation' = [ExecuteResume(invocation, Rejected(error))
                      EXCEPT !.settled = Rejected(error)]
  /\ UNCHANGED <<allowlist, confirmations, decision>>

Init ==
  /\ allowlist = {}
  /\ confirmations = EmptyBag
  /\ decision = NoDecision
  /\ invocation = Idle

Next ==
  \/ \E t \in Tools : ShouldConfirmExecute(t)
  \/ \E c \in BagToSet(confirmations), o \in Outcomes : OnConfirm(c, o)
  \/ \E t \in Tools, p \in ParamValues : Execute(t, p)
  \/ \E r \in SampleResponses : CallToolResolves(r)
  \/ \E e \in CallErrors : CallToolRejects(e)

Spec == Init /\ [][Next]_vars

\* the gate on its own: the calls of shouldConfirmExecute and onConfirm
NextGate ==
  \/ \E t \in Tools : ShouldConfirmExecute(t)
  \/ \E c \in BagToSet(confirmations), o \in Outcomes : OnConfirm(c, o)

SpecGate == Init /\ [][NextGate]_vars

(***************************************************************************)
(* Raw responses of the outbound call.  A response is a Part[]; a part     *)
(* carries a functionResponse whose response has the MCP content array.    *)
(***************************************************************************)
\* number of content blocks in the content array of a one-part response
MaxContentLen == 2

\* a legacy text that is itself a JSON-encoded block
JsonBlockText == "{\"type\":\"text\",\"text\":\"hi\"}"

ResourceUri == Str("file:///doc.txt")

TextBlocks ==
  { Obj([type |-> Str("text"), text |-> Str("ok")]),
    Obj([type |-> Str("text"), text |-> Str("")]) }

\* blocks of the old format: a text and no type
LegacyBlocks ==
  { Obj([text |-> Str("Simple text response")]),
    Obj([text |-> Str(JsonBlockText)]) }

MediaBlock(type, mimeType) ==
  Obj([type |-> Str(type), data |-> Str("AAA"), mimeType |-> Str(mimeType)])

ValidMediaBlocks ==
  { MediaBlock("image", "image/png"), MediaBlock("audio", "audio/mp3"),
    MediaBlock("video", "video/mp4"), MediaBlock("pdf", "application/pdf") }

\* blocks with a media type whose data or mimeType is missing, null, empty
\* or not a string
InvalidMediaBlocks ==
  { Obj([type |-> Str("image"), data |-> Str("AAA"), mimeType |-> Null]),
    Obj([type |-> Str("image"), mimeType |-> Str("image/png")]),
    Obj([type |-> Str("audio"), data |-> Num(7), mimeType |-> Str("audio/mp3")]),
    Obj([type |-> Str("pdf"), data |-> Str(""), mimeType |-> Str("application/pdf")]) }

ResourceBlock(resource) == Obj([type |-> Str("resource"), resource |-> resource])

ResourceBlocks ==
  { ResourceBlock(Obj([uri |-> ResourceUri, text |-> Str("body")])),
    ResourceBlock(Obj([uri |-> ResourceUri, blob |-> Str("QkJC"),
                       mimeType |-> Str("application/pdf")])),
    ResourceBlock(Obj([uri |-> ResourceUri, blob |-> Str("QkJC")])),
    ResourceBlock(Obj([uri |-> ResourceUri, text |-> Str("body"), blob |-> Str("QkJC"),
                       mimeType |-> Str("application/pdf")])),
    ResourceBlock(Obj([uri |-> ResourceUri])) }

\* resource blocks whose resource is null or has no uri
MalformedResourceBlocks ==
  { ResourceBlock(Null),
    ResourceBlock(Obj([text |-> Str("body")])) }

OtherTypedBlocks ==
  { Obj([type |-> Str("custom"), data |-> Str("someData")]),
    Obj([type |-> Str("resource_link"), uri |-> ResourceUri, title |-> Str("Doc")]),
    Obj([type |-> Str("resource_link"), uri |-> ResourceUri, name |-> Str("doc.txt")]) }

\* items of the content array that are no objects
NonObjectItems == { Null, Str("raw") }

Blocks ==
  TextBlocks \cup LegacyBlocks \cup ValidMediaBlocks \cup InvalidMediaBlocks
    \cup ResourceBlocks \cup MalformedResourceBlocks \cup OtherTypedBlocks
    \cup NonObjectItems

ErrorResponsePart(name, content) ==
  Obj([functionResponse |->
        Obj([name |-> Str(name),
             response |-> Obj([content |-> Arr(content), isError |-> Bool(TRUE)])])])

\* parts without a content array: no functionResponse, a response without
\* content, a content that is no array
ShapelessParts ==
  { Obj([text |-> Str("plain part")]),
    Obj([functionResponse |-> Obj([name |-> Str("b"), response |-> Obj(<< >>)])]),
    Obj([functionResponse |->
          Obj([name |-> Str("b"), response |-> Obj([content |-> Str("done")])])]) }

\* the part with content array `content`, error-flagged or not
ContentParts(content) ==
  {FunctionResponsePart("b", content), ErrorResponsePart("b", content)}

\* parts with a content array of at most one block
ShortParts ==
  ContentParts(<< >>) \cup UNION {ContentParts(<<b>>) : b \in Blocks}

\* responses of no part, of one part without a content array, and of two
\* parts of at most one block each
ShortResponses ==
  {Arr(<< >>)}
    \cup {Arr(<<p>>) : p \in ShapelessParts}
    \cup {Arr(<<p, q>>) : p, q \in ShortParts \cup ShapelessParts}

\* execute does not read the trust flag: the tools execute is followed on
ExecuteTools == {t \in Tools : ~t.trust}

\* execute on its own, with the outbound call resolving to a short response
\* or to a one-part response of at most MaxContentLen blocks
NextExecute ==
  \/ \E t \in ExecuteTools, p \in ParamValues : Execute(t, p)
  \/ invocation.pc = "awaiting" /\ \E r \in ShortResponses : CallToolResolves(r)
  \/ /\ invocation.pc = "awaiting"
     /\ \E n \in 0..MaxContentLen : \E content \in [1..n -> Blocks] :
          \E p \in ContentParts(content) : CallToolResolves(Arr(<<p>>))
  \/ \E e \in CallErrors : CallToolRejects(e)

SpecExecute == Init /\ [][NextExecute]_vars

(***************************************************************************)
(* Properties of the confirmation gate and of execute                      *)
(***************************************************************************)
Confirmations == BagToSet(confirmations)

\* the call returned a confirmation details object
IsDetails(r) == "type" \in DOMAIN r

\* the key a resolution of confirmation c with outcome o asks to add
KeysAdded(c, o) ==
  IF o = ProceedAlwaysServer THEN {c.serverName}
  ELSE IF o = ProceedAlwaysTool THEN {c.serverName \o "." \o c.toolName}
  ELSE {}

\* c was created for the server and tool of t
ForTool(c, t) == c.serverName = t.serverName /\ c.toolName = t.serverToolName

Listed(t) ==
  t.serverName \in allowlist \/ (t.serverName \o "." \o t.serverToolName) \in allowlist

\* C1: no step of any operation (shouldConfirmExecute, onConfirm, execute
\* and its continuation) removes a key from the allow-list.
AllowlistOnlyGrows == [][allowlist \subseteq allowlist']_vars

\* a key is listed, a later call for an untrusted tool was let through by
\* it, a confirmation was cancelled and an execute ran to its end
AllowlistOnlyGrowsWitness ==
  /\ allowlist # {}
  /\ decision.tool \in Tools /\ ~decision.tool.trust /\ decision.returned = Bool(FALSE)
  /\ \E c \in Confirmations : c.outcome = Cancel
  /\ invocation.pc = "returned"

\* C2: shouldConfirmExecute on a trusted tool returns false, creates no
\* confirmation and leaves the allow-list as it was, in every state.
TrustedAlwaysAllowed ==
  [][\A t \in Tools : (t.trust /\ ShouldConfirmExecute(t)) =>
        /\ decision'.returned = Bool(FALSE)
        /\ confirmations' = confirmations
        /\ allowlist' = allowlist]_vars

\* a trusted tool was let through with nothing listed
TrustedAlwaysAllowedWitness ==
  /\ decision.tool \in Tools /\ decision.tool.trust
  /\ decision.returned = Bool(FALSE)
  /\ allowlist = {}

\* C3: once a confirmation of server S was resolved with ProceedAlwaysServer,
\* every shouldConfirmExecute for a tool of S returns false.
ServerApprovalCoversServer ==
  [][\A t \in Tools :
        ( /\ ShouldConfirmExecute(t)
          /\ \E c \in Confirmations :
               c.serverName = t.serverName /\ c.outcome = ProceedAlwaysServer )
        => decision'.returned = Bool(FALSE)]_vars

\* an untrusted tool was let through on the approval given for another tool
\* of its server
ServerApprovalCoversServerWitness ==
  /\ decision.tool \in Tools /\ ~decision.tool.trust
  /\ decision.returned = Bool(FALSE)
  /\ \E c \in Confirmations :
       /\ c.serverName = decision.tool.serverName
       /\ c.toolName # decision.tool.serverToolName
       /\ c.outcome = ProceedAlwaysServer
  /\ toolAllowListKey(decision.tool) \notin allowlist

\* C4: resolving a confirmation with ProceedOnce or Cancel leaves the
\* allow-list the same set, of the same size.
OnceAndCancelKeepAllowlist ==
  [][\A c \in Confirmations, o \in {ProceedOnce, Cancel} : OnConfirm(c, o) =>
        /\ allowlist' = allowlist
        /\ Cardinality(allowlist') = Cardinality(allowlist)]_vars

\* a confirmation was cancelled and another resolved with ProceedOnce
OnceAndCancelKeepAllowlistWitness ==
  /\ \E c \in Confirmations : c.outcome = Cancel
  /\ \E c \in Confirmations : c.outcome = ProceedOnce
  /\ allowlist = {}

\* C5: ProceedAlwaysTool for (S, T) adds the key "S.T" and nothing else,
\* ProceedAlwaysServer adds the key S and nothing else, and after
\* ProceedAlwaysTool for (S, T) every shouldConfirmExecute for T on S
\* returns false.
AlwaysOutcomesAddOneKey ==
  [][ /\ \A c \in Confirmations : OnConfirm(c, ProceedAlwaysTool) =>
            allowlist' = allowlist \cup {c.serverName \o "." \o c.toolName}
      /\ \A c \in Confirmations : OnConfirm(c, ProceedAlwaysServer) =>
            allowlist' = allowlist \cup {c.serverName}
      /\ \A t \in Tools :
            ( /\ ShouldConfirmExecute(t)
              /\ \E c \in Confirmations : ForTool(c, t) /\ c.outcome = ProceedAlwaysTool )
            => decision'.returned = Bool(FALSE) ]_vars

\* a tool was let through on its own tool-scope approval alone
AlwaysOutcomesAddOneKeyWitness ==
  /\ decision.tool \in Tools /\ ~decision.tool.trust
  /\ decision.returned = Bool(FALSE)
  /\ \E c \in Confirmations : ForTool(c, decision.tool) /\ c.outcome = ProceedAlwaysTool
  /\ allowlist = {decision.tool.serverName \o "." \o decision.tool.serverToolName}

\* C6: for an untrusted tool (S, T) shouldConfirmExecute returns false
\* exactly when S or "S.T" is listed at the call; otherwise it returns a
\* details object of type 'mcp' naming S and T; the call never changes the
\* allow-list.
UntrustedDecision ==
  [][\A t \in Tools : (~t.trust /\ ShouldConfirmExecute(t)) =>
        /\ allowlist' = allowlist
        /\ (decision'.returned = Bool(FALSE)) <=> Listed(t)
        /\ ~Listed(t) =>
             /\ IsDetails(decision'.returned)
             /\ decision'.returned.type = "mcp"
             /\ decision'.returned.serverName = t.serverName
             /\ decision'.returned.toolName = t.serverToolName
             /\ BagIn(decision'.returned, confirmations')]_vars

\* an untrusted tool got a confirmation although keys of other tools and
\* servers are listed
UntrustedDecisionWitness ==
  /\ decision.tool \in Tools /\ ~decision.tool.trust
  /\ IsDetails(decision.returned)
  /\ allowlist # {}
  /\ ~Listed(decision.tool)

\* C7: resolving one confirmation resolves exactly that one: every other
\* confirmation, also one for the same server and tool, is left as it is; a
\* pending confirmation can be resolved with every outcome; and a resolution
\* adds the key of its own outcome whatever was resolved before.
ConfirmationsAreIndependent ==
  [][ /\ \A c \in Confirmations : c.outcome = "pending" =>
            \A o \in Outcomes : ENABLED OnConfirm(c, o)
      /\ \A c \in Confirmations, o \in Outcomes : OnConfirm(c, o) =>
            /\ CopiesIn(c, confirmations') = CopiesIn(c, confirmations) - 1
            /\ \A d \in Confirmations \ {c} :
                 CopiesIn(d, confirmations') =
                   CopiesIn(d, confirmations) + (IF d = [c EXCEPT !.outcome = o] THEN 1 ELSE 0)
            /\ allowlist' = allowlist \cup KeysAdded(c, o) ]_vars

\* two confirmations of one tool: the first was resolved for the whole
\* server, the second afterwards still added the tool key
ConfirmationsAreIndependentWitness ==
  \E c1, c2 \in Confirmations :
     /\ c1.serverName = c2.serverName /\ c1.toolName = c2.toolName
     /\ c1.outcome = ProceedAlwaysServer
     /\ c2.outcome = ProceedAlwaysTool
     /\ allowlist = {c1.serverAllowListKey, c2.toolAllowListKey}

\* C8: the allow-list is the set of the keys of the resolutions made so
\* far, whatever their order and however often a key was added.
AllowlistIsUnionOfResolutions ==
  allowlist = UNION {KeysAdded(c, c.outcome) : c \in Confirmations}

\* two confirmations resolved with the same key
AllowlistIsUnionOfResolutionsWitness ==
  \E c \in Confirmations :
     /\ c.outcome = ProceedAlwaysServer
     /\ CopiesIn(c, confirmations) >= 2
     /\ allowlist = {c.serverName}

\* the tool of an invocation was never approved: it is untrusted, not
\* listed, and a confirmation of it is unresolved or cancelled
Unapproved(t) ==
  /\ ~t.trust
  /\ ~Listed(t)
  /\ \E c \in Confirmations : ForTool(c, t) /\ c.outcome \in {"pending", Cancel}
  /\ \A c \in Confirmations : ForTool(c, t) => c.outcome \in {"pending", Cancel}

\* C9 as claimed: execute issues no outbound call for a tool that is
\* untrusted and not listed while its confirmation is unresolved or
\* cancelled.
ExecuteWaitsForGate ==
  [][\A t \in Tools, p \in ParamValues :
        (Execute(t, p) /\ Unapproved(t)) => invocation'.calls = << >>]_vars

\* C9 as amended: execute does not consult the gate: it can be called for
\* every tool in every state of the allow-list and of the confirmations,
\* and it then issues exactly one outbound call, named after the tool.
ExecuteIsUngated ==
  /\ \A t \in Tools, p \in ParamValues : ENABLED Execute(t, p)
  /\ invocation.pc = "awaiting" =>
       /\ Len(invocation.calls) = 1
       /\ Get(invocation.calls[1].a[1], "name") = Str(invocation.tool.serverToolName)

\* the outbound call of an unapproved tool is in flight
ExecuteIsUngatedWitness ==
  /\ invocation.pc = "awaiting"
  /\ Unapproved(invocation.tool)
  /\ Len(invocation.calls) = 1

\* C10: when the outbound call rejects, execute throws the reason of the
\* rejection itself, returns no result, calls neither the transformer nor
\* the summarizer and issues no second call; the two are called only after
\* the call fulfilled; every execute issues exactly one outbound call.
RejectionPropagates ==
  /\ invocation.settled.state = "rejected" =>
       /\ invocation.pc = "threw"
       /\ invocation.thrown = invocation.settled.reason
       /\ invocation.result = None
       /\ invocation.ran = << >>
  /\ invocation.ran # << >> => invocation.settled.state = "fulfilled"
  /\ invocation.pc # "idle" => Len(invocation.calls) = 1

\* an outbound call was rejected
RejectionPropagatesWitness ==
  /\ invocation.settled.state = "rejected"
  /\ invocation.thrown \in CallErrors

(***************************************************************************)
(* Properties of the transformer and of the summarizer, stated on what     *)
(* execute returned for the raw response the outbound call resolved with   *)
(***************************************************************************)
\* execute returned a result
Returned == invocation.pc = "returned"

RawResponse == invocation.settled.value
LlmContent == invocation.result.llmContent
ReturnDisplay == invocation.result.returnDisplay

\* the content of the response envelope of a part, and its error flag
ContentOf(part) == Get(Get(Get(part, "functionResponse"), "response"), "content")
HasContentArray(part) == IsArray(ContentOf(part))
ErrorFlagged(part) ==
  HasContentArray(part)
    /\ Get(Get(Get(part, "functionResponse"), "response"), "isError") = Bool(TRUE)

\* the block carries a type discriminator
Tagged(block) == Has(block, "type")

\* some block of the part contributes output
HasContributingBlock(part) ==
  HasContentArray(part) /\ \E i \in 1..Len(ContentOf(part).a) : Tagged(ContentOf(part).a[i])

\* the value is a transformed part list: not empty, and no part of it still
\* carries a content array
IsTransformedList(parts, response) ==
  /\ IsArray(parts)
  /\ parts.a # << >>
  /\ parts # response
  /\ \A i \in 1..Len(parts.a) : ~HasContentArray(parts.a[i])

\* C11: the transformer returns the original response, deep-equal to its
\* input, exactly when no block of the whole response contributes output
\* (an empty content array, blocks without a type only); as soon as one block
\* anywhere in the response contributed output it returns the transformed
\* list, which is not empty and in which no part carries a content array any
\* more.  The choice is one for the whole response.  The one part of an
\* error-flagged envelope (C12) is output of the response.
FallbackIffNothingTransformed ==
  Returned =>
    IF \E i \in 1..Len(RawResponse.a) :
         HasContributingBlock(RawResponse.a[i]) \/ ErrorFlagged(RawResponse.a[i])
      THEN IsTransformedList(LlmContent, RawResponse)
      ELSE LlmContent = RawResponse

\* a response of two parts, one with an empty content array and one with a
\* block of the old format, came back as it was
FallbackIffNothingTransformedWitness ==
  /\ Returned
  /\ Len(RawResponse.a) = 2
  /\ \E i, j \in 1..2 :
       /\ HasContentArray(RawResponse.a[i]) /\ ContentOf(RawResponse.a[i]).a = << >>
       /\ HasContentArray(RawResponse.a[j]) /\ Len(ContentOf(RawResponse.a[j]).a) = 1
  /\ LlmContent = RawResponse

\* a typed text block, and the indices of the typed text blocks of a content
IsTextBlock(block) == Get(block, "type") = Str("text") /\ TypeofString(Get(block, "text"))
TextBlockIndices(content) == {i \in 1..Len(content) : IsTextBlock(content[i])}
FirstTextBlock(content) ==
  content[CHOOSE i \in TextBlockIndices(content) : \A j \in TextBlockIndices(content) : i <= j]

\* the texts of the content that are not empty
NonEmptyTextIndices(content) ==
  {i \in TextBlockIndices(content) : Get(content[i], "text").s # ""}

\* the parts the claim admits for an error-flagged response: with the text
\* of the first text block or of the first text block that is not empty,
\* and with 'Unknown error' only when the content holds no text that is not
\* empty
ErrorPartsAsClaimed(t, content) ==
  { TextPart("Error from " \o t.serverToolName \o ": " \o text) :
      text \in
        IF NonEmptyTextIndices(content) = {}
          THEN {"Unknown error"}
                 \cup {Get(content[i], "text").s : i \in TextBlockIndices(content)}
          ELSE { Get(FirstTextBlock(content), "text").s,
                 Get(content[CHOOSE i \in NonEmptyTextIndices(content) :
                               \A j \in NonEmptyTextIndices(content) : i <= j], "text").s } }

\* the same, with 'Unknown error' also when the text of the first text block
\* is empty
ErrorPartAsAmended(t, content) ==
  TextPart("Error from " \o t.serverToolName \o ": "
           \o (IF TextBlockIndices(content) = {}
                    \/ Get(FirstTextBlock(content), "text").s = ""
                 THEN "Unknown error"
                 ELSE Get(FirstTextBlock(content), "text").s))

\* every part of the response is error-flagged or has no content array, and
\* one at least is error-flagged
OnlyErrorsAndShapeless(response) ==
  /\ \A i \in 1..Len(response.a) :
       ErrorFlagged(response.a[i]) \/ ~HasContentArray(response.a[i])
  /\ \E i \in 1..Len(response.a) : ErrorFlagged(response.a[i])

\* C12 as claimed: an error-flagged response yields exactly one part, the
\* error text with the first text found in its content, 'Unknown error'
\* when the content holds no text.
ErrorResponseYieldsFirstText ==
  (Returned /\ OnlyErrorsAndShapeless(RawResponse)) =>
    /\ Len(LlmContent.a) = Len(RawResponse.a)
    /\ \A i \in 1..Len(RawResponse.a) :
         IF ErrorFlagged(RawResponse.a[i])
           THEN LlmContent.a[i]
                  \in ErrorPartsAsClaimed(invocation.tool, ContentOf(RawResponse.a[i]).a)
           ELSE LlmContent.a[i] = RawResponse.a[i]

\* C12 as amended: an error-flagged response yields exactly one part and
\* nothing else (no header, no inlineData, no text of a block), in the place
\* of the response: the error text with the text of the first typed text
\* block of its content, or with 'Unknown error' when the content has no
\* typed text block or the text of the first one is empty.
ErrorResponseYieldsOnePart ==
  (Returned /\ OnlyErrorsAndShapeless(RawResponse)) =>
    /\ Len(LlmContent.a) = Len(RawResponse.a)
    /\ \A i \in 1..Len(RawResponse.a) :
         LlmContent.a[i] =
           IF ErrorFlagged(RawResponse.a[i])
             THEN ErrorPartAsAmended(invocation.tool, ContentOf(RawResponse.a[i]).a)
             ELSE RawResponse.a[i]

\* an error-flagged response with a media block before its text block came
\* back as the one error part with that text
ErrorResponseYieldsOnePartWitness ==
  /\ Returned
  /\ Len(RawResponse.a) = 1
  /\ ErrorFlagged(RawResponse.a[1])
  /\ Len(ContentOf(RawResponse.a[1]).a) = 2
  /\ ContentOf(RawResponse.a[1]).a[1] = MediaBlock("image", "image/png")
  /\ IsTextBlock(ContentOf(RawResponse.a[1]).a[2])
  /\ LlmContent = Arr(<<TextPart("Error from " \o invocation.tool.serverToolName \o ": ok")>>)

\* the content of the part is one typed text block or more, and nothing
\* else; its envelope is not error-flagged
OnlyTextBlocks(part) ==
  /\ HasContentArray(part)
  /\ ~ErrorFlagged(part)
  /\ ContentOf(part).a # << >>
  /\ \A i \in 1..Len(ContentOf(part).a) : IsTextBlock(ContentOf(part).a[i])

\* one {text} part per block of the content, in the order of the blocks
TextPartsOf(content) ==
  [i \in 1..Len(content) |-> Obj([text |-> Get(content[i], "text")])]

RECURSIVE ConcatAll(_)
ConcatAll(seqs) == IF seqs = << >> THEN << >> ELSE Head(seqs) \o ConcatAll(Tail(seqs))

\* C13: when every content array of the response holds typed text blocks
\* only (one or more, the empty string included), the transformer output is
\* one {text} part per block with the text of the block, in input order, and
\* nothing else: no header, no other part.
TextBlocksBecomeTextParts ==
  ( /\ Returned
    /\ RawResponse.a # << >>
    /\ \A i \in 1..Len(RawResponse.a) : OnlyTextBlocks(RawResponse.a[i]) )
  => LlmContent =
       Arr(ConcatAll([i \in 1..Len(RawResponse.a) |->
                        TextPartsOf(ContentOf(RawResponse.a[i]).a)]))

\* two text blocks, the first with the empty string, came back as two parts
TextBlocksBecomeTextPartsWitness ==
  /\ Returned
  /\ Len(RawResponse.a) = 1
  /\ OnlyTextBlocks(RawResponse.a[1])
  /\ Len(ContentOf(RawResponse.a[1]).a) = 2
  /\ LlmContent = Arr(<<TextPart(""), TextPart("ok")>>)

\* a block of the old format: a string text and no type discriminator
IsLegacyBlock(block) == ~Tagged(block) /\ TypeofString(Get(block, "text"))

\* the content of the part is one legacy block or more, and nothing else;
\* its envelope is not error-flagged
OnlyLegacyBlocks(part) ==
  /\ HasContentArray(part)
  /\ ~ErrorFlagged(part)
  /\ ContentOf(part).a # << >>
  /\ \A i \in 1..Len(ContentOf(part).a) : IsLegacyBlock(ContentOf(part).a[i])

\* C14: a response whose content arrays hold untyped legacy blocks only
\* ({text} without a type) comes back from the transformer as the original
\* response, unchanged, whether the text is JSON or not.
LegacyOnlyResponseIsKept ==
  ( /\ Returned
    /\ RawResponse.a # << >>
    /\ \A i \in 1..Len(RawResponse.a) : OnlyLegacyBlocks(RawResponse.a[i]) )
  => LlmContent = RawResponse

\* a response of a plain legacy text and a legacy text holding JSON came
\* back as it was
LegacyOnlyResponseIsKeptWitness ==
  /\ Returned
  /\ Len(RawResponse.a) = 1
  /\ OnlyLegacyBlocks(RawResponse.a[1])
  /\ \E i, j \in 1..Len(ContentOf(RawResponse.a[1]).a) :
       /\ Get(ContentOf(RawResponse.a[1]).a[i], "text") = Str(JsonBlockText)
       /\ Get(ContentOf(RawResponse.a[1]).a[j], "text") = Str("Simple text response")
  /\ LlmContent = RawResponse

\* a block with one of the media types, and one whose data and mimeType are
\* both strings that are not empty
IsMediaTagged(block) ==
  Get(block, "type") \in {Str("image"), Str("audio"), Str("video"), Str("pdf")}
NonEmptyString(v) == TypeofString(v) /\ v.s # ""
IsValidMedia(block) ==
  /\ IsMediaTagged(block)
  /\ NonEmptyString(Get(block, "data"))
  /\ NonEmptyString(Get(block, "mimeType"))

\* the content of the part is one media block or more, valid or not, and
\* nothing else; its envelope is not error-flagged
OnlyMediaBlocks(part) ==
  /\ HasContentArray(part)
  /\ ~ErrorFlagged(part)
  /\ ContentOf(part).a # << >>
  /\ \A i \in 1..Len(ContentOf(part).a) : IsMediaTagged(ContentOf(part).a[i])

\* the header part of tool t
HeaderPart(t) ==
  TextPart("[Response from " \o t.serverToolName \o " (" \o t.serverName \o " MCP Server)]")

\* the part list without the header parts of tool t
WithoutHeaders(t, parts) ==
  LET NotHeader(p) == p # HeaderPart(t)
  IN SelectSeq(parts, NotHeader)

\* the one part of a media block: the inlineData of a valid block, the
\* placeholder text of an invalid one
MediaPartsOf(content) ==
  [i \in 1..Len(content) |->
     IF IsValidMedia(content[i])
       THEN InlineDataPart(Get(content[i], "data"), Get(content[i], "mimeType"))
       ELSE TextPart("[Invalid media: missing data or mimeType]")]

\* C15: a media block (image, audio, video, pdf) whose data or mimeType is
\* missing, null, empty or not a string yields exactly one part, the text
\* "[Invalid media: missing data or mimeType]", and no inlineData part; a
\* media block yields an inlineData part only when its data and mimeType are
\* both non-empty strings, and every inlineData part of any output carries
\* non-empty strings.
InvalidMediaYieldsPlaceholder ==
  Returned =>
    /\ (Len(RawResponse.a) = 1 /\ OnlyMediaBlocks(RawResponse.a[1])) =>
          WithoutHeaders(invocation.tool, LlmContent.a)
            = MediaPartsOf(ContentOf(RawResponse.a[1]).a)
    /\ \A i \in 1..Len(LlmContent.a) :
          Has(LlmContent.a[i], "inlineData") =>
            /\ NonEmptyString(Get(Get(LlmContent.a[i], "inlineData"), "data"))
            /\ NonEmptyString(Get(Get(LlmContent.a[i], "inlineData"), "mimeType"))

\* an image with a null mimeType next to a valid image: one placeholder and
\* one inlineData part
InvalidMediaYieldsPlaceholderWitness ==
  /\ Returned
  /\ Len(RawResponse.a) = 1
  /\ OnlyMediaBlocks(RawResponse.a[1])
  /\ ContentOf(RawResponse.a[1]).a[1]
       = Obj([type |-> Str("image"), data |-> Str("AAA"), mimeType |-> Null])
  /\ LlmContent.a[Len(LlmContent.a)] = InlineDataPart(Str("AAA"), Str("image/png"))
  /\ TextPart("[Invalid media: missing data or mimeType]")
       \in {LlmContent.a[i] : i \in 1..Len(LlmContent.a)}

\* a resource block that carries binary data
IsBlobResource(block) ==
  /\ Get(block, "type") = Str("resource")
  /\ TypeofString(Get(Get(block, "resource"), "uri"))
  /\ NonEmptyString(Get(Get(block, "resource"), "blob"))
  /\ NonEmptyString(Get(Get(block, "resource"), "mimeType"))

\* the content of the part produces a media/binary item
ProducesMedia(part) ==
  /\ HasContentArray(part)
  /\ ~ErrorFlagged(part)
  /\ \E i \in 1..Len(ContentOf(part).a) :
       IsValidMedia(ContentOf(part).a[i]) \/ IsBlobResource(ContentOf(part).a[i])

\* the number of items a top-level part puts into a transformed list: one
\* per block with a type; one for an error-flagged envelope; the part itself
\* when it has no content array
ItemCount(part) ==
  IF ~HasContentArray(part) \/ ErrorFlagged(part) THEN 1
  ELSE Cardinality({i \in 1..Len(ContentOf(part).a) : Tagged(ContentOf(part).a[i])})

IsInlineData(p) == Has(p, "inlineData")

\* `out` is the items of `parts`, part by part, where the items of a part
\* that produces media follow one header and hold an inlineData part, and the
\* items of every other part come without a header and without inlineData
RECURSIVE HeadersPlaced(_, _, _)
HeadersPlaced(t, out, parts) ==
  IF parts = << >> THEN out = << >>
  ELSE IF ProducesMedia(Head(parts)) THEN
    /\ Len(out) >= ItemCount(Head(parts)) + 1
    /\ out[1] = HeaderPart(t)
    /\ \A i \in 2..(ItemCount(Head(parts)) + 1) : out[i] # HeaderPart(t)
    /\ \E i \in 2..(ItemCount(Head(parts)) + 1) : IsInlineData(out[i])
    /\ HeadersPlaced(t, SubSeq(out, ItemCount(Head(parts)) + 2, Len(out)), Tail(parts))
  ELSE
    /\ Len(out) >= ItemCount(Head(parts))
    /\ \A i \in 1..ItemCount(Head(parts)) : out[i] # HeaderPart(t) /\ ~IsInlineData(out[i])
    /\ HeadersPlaced(t, SubSeq(out, ItemCount(Head(parts)) + 1, Len(out)), Tail(parts))

\* C16: in a transformed list every top-level part whose content produced a
\* media/binary item has exactly one header "[Response from <tool> (<server>
\* MCP Server)]" immediately before all its items, however many media items
\* it has, and a part that produced text items only has no header.
HeaderPerMediaPart ==
  ( /\ Returned
    /\ \E i \in 1..Len(RawResponse.a) :
         HasContributingBlock(RawResponse.a[i]) \/ ErrorFlagged(RawResponse.a[i]) )
  => HeadersPlaced(invocation.tool, LlmContent.a, RawResponse.a)

\* a text-only part before a part with an image: the header stands between
\* the text and the image
HeaderPerMediaPartWitness ==
  /\ Returned
  /\ Len(RawResponse.a) = 2
  /\ OnlyTextBlocks(RawResponse.a[1])
  /\ ProducesMedia(RawResponse.a[2])
  /\ Len(LlmContent.a) = 3
  /\ ~IsInlineData(LlmContent.a[1])
  /\ LlmContent.a[2] = HeaderPart(invocation.tool)
  /\ IsInlineData(LlmContent.a[3])

\* the parts the transformer derives from one block: what it returned (r)
\* for the response that holds this block alone, without the header; none
\* when that response came back as it was
DerivedFrom(t, response, r) ==
  IF r.threw \/ r.value = response THEN << >> ELSE WithoutHeaders(t, r.value.a)
DerivedParts(t, response) == DerivedFrom(t, response, transformMcpResponse(t, response))
PartsOfBlock(t, block) == DerivedParts(t, Arr(<<FunctionResponsePart("b", <<block>>)>>))

\* the parts derived from the blocks of a content, block after block
PartsOfContent(t, content) ==
  ConcatAll([j \in 1..Len(content) |-> PartsOfBlock(t, content[j])])

\* every part of the response has a content array and no error flag
OnlyContentParts(response) ==
  \A i \in 1..Len(response.a) :
     HasContentArray(response.a[i]) /\ ~ErrorFlagged(response.a[i])

\* C17: a transformed list is, headers aside, the parts derived from the
\* first block of the first part, then those of its second block, and so on
\* through the blocks of a part and through the parts: the parts of a block
\* are contiguous and the blocks keep their input order.
OutputFollowsInputOrder ==
  ( /\ Returned
    /\ OnlyContentParts(RawResponse)
    /\ \E i \in 1..Len(RawResponse.a) : HasContributingBlock(RawResponse.a[i]) )
  => WithoutHeaders(invocation.tool, LlmContent.a)
       = ConcatAll([i \in 1..Len(RawResponse.a) |->
                      PartsOfContent(invocation.tool, ContentOf(RawResponse.a[i]).a)])

\* an image before a text in one part, and a text before an image in two
\* parts, came back in their order
OutputFollowsInputOrderWitness ==
  /\ Returned
  /\ \/ /\ Len(RawResponse.a) = 1
        /\ HasContentArray(RawResponse.a[1])
        /\ ContentOf(RawResponse.a[1]).a
             = <<MediaBlock("image", "image/png"), Obj([type |-> Str("text"), text |-> Str("ok")])>>
        /\ LlmContent = Arr(<<HeaderPart(invocation.tool),
                              InlineDataPart(Str("AAA"), Str("image/png")), TextPart("ok")>>)
     \/ /\ Len(RawResponse.a) = 2
        /\ OnlyTextBlocks(RawResponse.a[1])
        /\ ProducesMedia(RawResponse.a[2])
        /\ LlmContent = Arr(<<TextPart("ok"), HeaderPart(invocation.tool),
                              InlineDataPart(Str("AAA"), Str("image/png"))>>)

\* a block whose tag is none of the content types of the protocol
HasUnrecognizedTag(block) ==
  /\ Tagged(block)
  /\ Get(block, "type") \notin
       {Str("text"), Str("image"), Str("audio"), Str("video"), Str("pdf"),
        Str("resource"), Str("resource_link")}

\* C18: the transformer never raises: whatever response the outbound call
\* resolved with (blocks with an unrecognized tag, null and non-object items,
\* a resource block whose resource is null or has no uri), it returns a
\* value and execute returns its result; a block with an unrecognized tag
\* yields exactly {text: "[Unknown content type: <tag>]"}.
TransformerNeverRaises ==
  invocation.settled.state = "fulfilled" =>
    /\ invocation.pc = "returned"
    /\ invocation.thrown = None
    /\ ( /\ Len(RawResponse.a) = 1
         /\ HasContentArray(RawResponse.a[1])
         /\ ~ErrorFlagged(RawResponse.a[1])
         /\ Len(ContentOf(RawResponse.a[1]).a) = 1
         /\ HasUnrecognizedTag(ContentOf(RawResponse.a[1]).a[1]) )
       => LlmContent =
            Arr(<<TextPart("[Unknown content type: "
                           \o ToStr(Get(ContentOf(RawResponse.a[1]).a[1], "type")) \o "]")>>)

\* the fenced JSON block of the empty array
FencedEmptyArray == Fence \o "json\n[]\n" \o Fence

\* the response is one part with an empty content array
HasEmptyContent(response) ==
  /\ Len(response.a) = 1
  /\ HasContentArray(response.a[1])
  /\ ContentOf(response.a[1]).a = << >>

\* C19 as claimed: for a response whose content array is empty the display
\* string is the fenced empty-array JSON block, the string returned for a
\* raw response with no parts.
EmptyContentDisplaysFencedArray ==
  (Returned /\ HasEmptyContent(RawResponse)) => ReturnDisplay = FencedEmptyArray

\* C19 as amended: for a response of one part whose content array is empty
\* the display string is the empty string; the fenced empty-array JSON block
\* is the display string of the raw response with no parts.
EmptyContentDisplaysEmptyString ==
  Returned =>
    /\ HasEmptyContent(RawResponse) => ReturnDisplay = ""
    /\ RawResponse.a = << >> => ReturnDisplay = FencedEmptyArray

\* a response with content=[] was displayed as the empty string
EmptyContentDisplaysEmptyStringWitness ==
  /\ Returned
  /\ HasEmptyContent(RawResponse)
  /\ ~ErrorFlagged(RawResponse.a[1])
  /\ LlmContent = RawResponse
  /\ ReturnDisplay = ""

\* the JSON text of v, pretty-printed with two spaces, inside a json fence
FencedJson(v) == Fence \o "json\n" \o JsonStringify(v, 0) \o "\n" \o Fence

\* no part of the response has a content array: the response has not the
\* block-array shape
Shapeless(response) ==
  /\ response.a # << >>
  /\ \A i \in 1..Len(response.a) : ~HasContentArray(response.a[i])

\* what the summarizer keeps of a part without a content array: its
\* functionResponse object, or the part itself when it has none
KeptOf(part) ==
  IF Has(part, "functionResponse") THEN Get(part, "functionResponse") ELSE part

\* the response is one part whose content array holds null items only
OnlyNullItems(response) ==
  /\ Len(response.a) = 1
  /\ HasContentArray(response.a[1])
  /\ ContentOf(response.a[1]).a # << >>
  /\ \A i \in 1..Len(ContentOf(response.a[1]).a) : ContentOf(response.a[1]).a[i] = Null

RECURSIVE JoinedByNewline(_)
JoinedByNewline(strs) ==
  IF strs = << >> THEN ""
  ELSE IF Len(strs) = 1 THEN Head(strs)
  ELSE Head(strs) \o "\n" \o JoinedByNewline(Tail(strs))

\* the response is one part with a content array that is not empty
SingleContentResponse(response) ==
  /\ Len(response.a) = 1
  /\ HasContentArray(response.a[1])
  /\ ContentOf(response.a[1]).a # << >>

\* the label of a media block in the display
MediaLabel(block) ==
  CASE Get(block, "type") = Str("image") -> "[Image: " \o ToStr(Get(block, "mimeType")) \o "]"
    [] Get(block, "type") = Str("audio") -> "[Audio: " \o ToStr(Get(block, "mimeType")) \o "]"
    [] Get(block, "type") = Str("video") -> "[Video: " \o ToStr(Get(block, "mimeType")) \o "]"
    [] Get(block, "type") = Str("pdf") -> "[PDF document]"

\* a block of one of the kinds C21 names, well formed: a tag that is a
\* string; a text block with its text; a media block with data and mimeType;
\* a resource block with its resource
WellFormedBlock(block) ==
  /\ TypeofString(Get(block, "type"))
  /\ Get(block, "type") = Str("text") => IsTextBlock(block)
  /\ IsMediaTagged(block) => IsValidMedia(block)
  /\ Get(block, "type") = Str("resource") => Get(block, "resource").k = "object"

\* the rendering C21 gives a well-formed block
RenderingAsClaimed(block) ==
  CASE Get(block, "type") = Str("text") -> Get(block, "text").s
    [] IsMediaTagged(block) -> MediaLabel(block)
    [] Get(block, "type") = Str("resource") ->
         IF Truthy(Get(Get(block, "resource"), "text"))
           THEN ToStr(Get(Get(block, "resource"), "text"))
           ELSE "[Embedded Resource: "
                  \o ToStr(OrElse(Get(Get(block, "resource"), "mimeType"), Str("unknown type")))
                  \o "]"
    [] Get(block, "type") = Str("resource_link") ->
         "[Link to " \o ToStr(OrElse(Get(block, "title"), Get(block, "name"))) \o ": "
           \o ToStr(Get(block, "uri")) \o "]"
    [] OTHER -> "[Unknown content type: " \o ToStr(Get(block, "type")) \o "]"

HasMediaFields(block) ==
  IsMediaTagged(block) /\ Truthy(Get(block, "data")) /\ Truthy(Get(block, "mimeType"))

\* the rendering of an item of the content array: the label of a media block
\* with data and mimeType, the text of any other block that has a text
\* field, and the item as it is otherwise
RenderingOf(item) ==
  IF HasMediaFields(item) THEN Str(MediaLabel(item))
  ELSE IF Has(item, "text") THEN Get(item, "text")
  ELSE item

RenderingsOf(content) == [i \in 1..Len(content) |-> RenderingOf(content[i])]

IsResourceBlock(block) ==
  /\ Get(block, "type") = Str("resource")
  /\ TypeofString(Get(Get(block, "resource"), "uri"))

\* the response is one part, not error-flagged, whose content is one block
SingleBlockResponse(response) ==
  /\ SingleContentResponse(response)
  /\ ~ErrorFlagged(response.a[1])
  /\ Len(ContentOf(response.a[1]).a) = 1

\* the one block of such a response
TheBlock == ContentOf(RawResponse.a[1]).a[1]

\* the parts C22 gives a resource: by first match, the text under its uri
\* line, the blob as inlineData with the mimeType of the resource or
\* application/octet-stream, the uri line alone
ResourcePartsAsClaimed(resource) ==
  IF Truthy(Get(resource, "text")) THEN
    <<TextPart("[Resource: " \o Get(resource, "uri").s \o "]\n" \o ToStr(Get(resource, "text")))>>
  ELSE IF Truthy(Get(resource, "blob")) THEN
    <<InlineDataPart(Get(resource, "blob"),
                     OrElse(Get(resource, "mimeType"), Str("application/octet-stream")))>>
  ELSE <<TextPart("[Resource: " \o Get(resource, "uri").s \o "]")>>

\* C22: a resource block is transformed by first match in this order: when
\* resource.text is present, one part {text: "[Resource: <uri>]\n<text>"},
\* also when a blob is present too; else when resource.blob is present, an
\* inlineData part that carries the blob, with the mimeType of the resource
\* or application/octet-stream when it has none; else one part
\* {text: "[Resource: <uri>]"}.  (The header of C16 aside.)
ResourceTransformedByFirstMatch ==
  ( /\ Returned
    /\ SingleBlockResponse(RawResponse)
    /\ IsResourceBlock(TheBlock) )
  => WithoutHeaders(invocation.tool, LlmContent.a)
       = ResourcePartsAsClaimed(Get(TheBlock, "resource"))

\* a link to a resource
IsResourceLink(block) == Get(block, "type") = Str("resource_link")

\* C23: a resource_link block is transformed into exactly one part
\* {text: "Resource Link: <title-or-name> at <uri>"}, with the title of the
\* block when it has one and its name otherwise.
ResourceLinkBecomesLinkText ==
  ( /\ Returned
    /\ SingleBlockResponse(RawResponse)
    /\ IsResourceLink(TheBlock) )
  => LlmContent =
       Arr(<<TextPart("Resource Link: "
                      \o ToStr(OrElse(Get(TheBlock, "title"), Get(TheBlock, "name")))
                      \o " at " \o ToStr(Get(TheBlock, "uri")))>>)

\* a legacy block whose text is literal text, no JSON-encoded block
IsLiteralLegacyBlock(block) ==
  IsLegacyBlock(block) /\ Get(block, "text") # Str(JsonBlockText)

\* the parts of the response that have a content array and no error flag
ContentPartIndices(response) ==
  {i \in 1..Len(response.a) :
     HasContentArray(response.a[i]) /\ ~ErrorFlagged(response.a[i])}

\* C24: an untyped legacy block {text: s} whose s is no JSON-encoded block
\* is literal text: whenever the transformer returns a transformed list
\* (some other block of the response produced output), the list holds a
\* {text: s} part for the legacy block, at its input position: first, headers
\* aside, when the block is the first of a one-part response, last when it
\* is the last.  No text of a block is dropped.
LegacyTextIsKeptInTransformedList ==
  ( Returned /\ IsTransformedList(LlmContent, RawResponse) )
  => \A i \in ContentPartIndices(RawResponse) :
       \A j \in 1..Len(ContentOf(RawResponse.a[i]).a) :
         IsLiteralLegacyBlock(ContentOf(RawResponse.a[i]).a[j]) =>
           LET s == Get(ContentOf(RawResponse.a[i]).a[j], "text")
               out == WithoutHeaders(invocation.tool, LlmContent.a)
           IN /\ \E k \in 1..Len(out) : out[k] = Obj([text |-> s])
              /\ (Len(RawResponse.a) = 1 /\ j = 1) => out[1] = Obj([text |-> s])
              /\ (Len(RawResponse.a) = 1 /\ j = Len(ContentOf(RawResponse.a[i]).a))
                   => out[Len(out)] = Obj([text |-> s])

\* the one resolution so far is that of confirmation c, with
\* ProceedAlwaysTool: every other confirmation is pending
OnlyToolApproval(c) ==
  /\ c.outcome = ProceedAlwaysTool
  /\ CopiesIn(c, confirmations) = 1
  /\ \A d \in Confirmations \ {c} : d.outcome = "pending"

\* C25: a tool-scope approval is confined to its tool: after the resolution
\* of a confirmation of (S, T) with ProceedAlwaysTool and no other
\* resolution, shouldConfirmExecute for every untrusted tool whose server and
\* tool name are not both S and T still returns a confirmation, whatever the
\* names are, names that contain a '.' included.
ToolApprovalIsConfined ==
  [][\A t \in Tools :
        ( /\ ~t.trust
          /\ ShouldConfirmExecute(t)
          /\ \E c \in Confirmations : OnlyToolApproval(c) /\ ~ForTool(c, t) )
        => IsDetails(decision'.returned)]_vars

====
